---------------------------- MODULE Spec2Model ----------------------------
(***************************************************************************)
(* A model of two parts of vhdl_lang's analysis:                           *)
(*   - analysis/completion.rs: the region searcher, tokenize_input and the *)
(*     completion proposer of DesignRoot;                                  *)
(*   - analysis/standard.rs: the implicit declarations of StandardRegion.  *)
(* Each part has its own specification over the shared variables; the      *)
(* variables a specification does not use keep their initial value.        *)
(***************************************************************************)
EXTENDS Integers, Sequences, FiniteSets, TLC

VARIABLES
    root,       \* the DesignRoot: its libraries and their design units
    source,     \* the results the tokenizer yields for the source, in order
    cursor,     \* the cursor Position handed to the last operation
    lib_arg,    \* the library Symbol handed to the last operation
    unit_arg,   \* the primary unit Symbol handed to the last operation
    tokens,     \* what tokenize_input returned
    options,    \* the Vec<String> the last listing operation returned
    op,         \* the operation that ran last
    region,     \* RegionSearcher.region: the region selected so far, if any
    rs_cursor,  \* RegionSearcher.cursor
    rs_source,  \* RegionSearcher.source: the source searched in
    to_walk,    \* the sources the traversal has still to walk, in order
    walking,    \* the source the traversal is in
    state,      \* the SearchState the searcher returned last
    visited,    \* the regions search_region was called with
    last,       \* the region search_region was called with last
    arena,      \* the number of entities the Arena has allocated
    implicits,  \* the implicits slot of each type that has one: entity ids
    res,        \* the Vec<EntRef> the last synthesizer operation returned
    std_op,     \* the synthesizer operation that ran last
    std_typ,    \* the type it was called with (the file type)
    std_mark,   \* the type mark it was called with
    std_calls,  \* the number of synthesizer operations run
    immediates  \* what region.immediates() yields for the standard region, in order

completion_vars == <<root, source, cursor, lib_arg, unit_arg, tokens, options, op>>

region_vars == <<region, rs_cursor, rs_source, to_walk, walking, state, visited, last>>

std_vars == <<arena, implicits, res, std_op, std_typ, std_mark, std_calls, immediates>>

vars == <<completion_vars, region_vars, std_vars>>

(***************************************************************************)
(* Bounds of the model.                                                    *)
(***************************************************************************)
\* lexemes of a source of SpecTokenize
MaxLexemes == 3
\* tokens typed after the start text in Spec
MaxTyped == 4
\* declarations of the package of SpecLibrary
MaxDecls == 3
\* regions search_region is called with in SpecRegion
MaxVisited == 3
\* synthesizer operations run in SpecStandard
MaxCalls == 2

(***************************************************************************)
(* Positions: Position { line, character }, ordered by its derived Ord,    *)
(* line first and character second.                                        *)
(***************************************************************************)
Pos(l, c) == [line |-> l, character |-> c]

PosLT(p, q) ==
    \/ p.line < q.line
    \/ p.line = q.line /\ p.character < q.character

\* faulty variant: the comparison is strict
PosGT(p, q) == PosLT(q, p)

PosGE(p, q) == ~PosLT(p, q)

PosLE(p, q) == ~PosLT(q, p)

(***************************************************************************)
(* Tokens: Token { kind, value, pos }.  An Identifier token carries        *)
(* Value::Identifier(symbol), a StringLiteral Value::String, every other   *)
(* kind Value::NoValue.                                                    *)
(***************************************************************************)
NoSymbol == "-"

MkToken(kind, sym, start) ==
    [kind  |-> kind,
     value |-> [tag |-> IF kind = "Identifier" THEN "Identifier"
                        ELSE IF kind = "StringLiteral" THEN "String"
                        ELSE "NoValue",
                sym |-> IF kind = "Identifier" THEN sym ELSE NoSymbol],
     pos   |-> [start |-> start,
                end   |-> Pos(start.line, start.character + 2)]]

\* one result of Tokenizer::pop for a lexeme: Ok(Some(token)) or Err(_)
OkLexeme(tok) == [ok |-> TRUE, token |-> tok]

ErrLexeme(start) == [ok |-> FALSE, token |-> MkToken("Error", NoSymbol, start)]

\* Tokenizer::pop, the i-th call: the i-th lexeme, and Ok(None) at the end
pop(src, i) ==
    IF i > Len(src) THEN [tag |-> "None", token |-> MkToken("Eof", NoSymbol, Pos(0, 0))]
    ELSE IF src[i].ok THEN [tag |-> "Some", token |-> src[i].token]
    ELSE [tag |-> "Err", token |-> src[i].token]

(***************************************************************************)
(* tokenize_input: the loop over tokenizer.pop().                          *)
(***************************************************************************)
RECURSIVE tokenize_loop_keep(_, _, _, _)
\* faulty variant: an error ends the loop like the end of the source does
tokenize_loop_keep(src, cur, i, acc) ==
    LET r == pop(src, i) IN
    IF r.tag = "Err" THEN acc
    ELSE IF r.tag = "None" THEN acc
    ELSE IF ~PosLT(r.token.pos.start, cur) THEN acc
    ELSE tokenize_loop_keep(src, cur, i + 1, Append(acc, r.token))

RECURSIVE tokenize_loop(_, _, _, _)
tokenize_loop(src, cur, i, acc) ==
    LET r == pop(src, i) IN
    IF r.tag = "Err" THEN <<>>
    ELSE IF r.tag = "None" THEN acc
    ELSE IF PosGE(r.token.pos.start, cur) THEN acc
    ELSE tokenize_loop(src, cur, i + 1, Append(acc, r.token))

tokenize_input(src, cur) == tokenize_loop(src, cur, 1, <<>>)

(***************************************************************************)
(* The design root: libraries in the order available_libraries() yields    *)
(* them, each with its units in the order of its key map.  A unit is keyed *)
(* UnitKey::Primary(name) or UnitKey::Secondary(primary, name).            *)
(***************************************************************************)
Decl(variant, name) == [variant |-> variant, name |-> name]

PrimaryUnit(name, kind, decl) ==
    [key |-> [tag |-> "Primary", primary |-> name, name |-> name],
     kind |-> kind, decl |-> decl]

SecondaryUnit(primary, name, kind) ==
    [key |-> [tag |-> "Secondary", primary |-> primary, name |-> name],
     kind |-> kind, decl |-> <<>>]

Library(name, units) == [name |-> name, units |-> units]

\* the declarations of package ieee.pkg in the fixed design root
PkgDecls ==
    << Decl("Type", "t"), Decl("Object", "c"), Decl("SubprogramDeclaration", "f"),
       Decl("SubprogramBody", "f"), Decl("SubprogramDeclaration", "f"), Decl("Use", "-") >>

RootWith(decls) ==
    [libraries |->
        << Library("ieee",
                   << PrimaryUnit("pkg", "Package", decls),
                      PrimaryUnit("ent", "Entity", <<>>),
                      SecondaryUnit("ent", "ieee", "Architecture"),
                      SecondaryUnit("pkg", "pkg", "PackageBody") >>),
           Library("pkg",
                   << PrimaryUnit("ieee", "Package", << Decl("Alias", "a") >>),
                      PrimaryUnit("cfg", "Configuration", <<>>) >>) >>]

DesignRoot == RootWith(PkgDecls)

\* the symbols an Identifier token may carry
Symbols == {"ieee", "pkg", "ent"}

RECURSIVE Flatten(_)
\* iterator.filter_map(f).collect(), given the Option each f(x) is: None is
\* <<>> and Some(y) is <<y>>
Flatten(opts) ==
    IF opts = <<>> THEN <<>> ELSE Head(opts) \o Flatten(Tail(opts))

Range(s) == {s[i] : i \in DOMAIN s}

\* DesignRoot::get_library_units: the units of the library, when registered
HasLibrary(r, lib) == \E i \in DOMAIN r.libraries : r.libraries[i].name = lib

get_library_units(r, lib) ==
    LET i == CHOOSE j \in DOMAIN r.libraries : r.libraries[j].name = lib
    IN  r.libraries[i].units

(***************************************************************************)
(* declaration_to_string: the string a declaration is completed by, None   *)
(* for subprogram bodies, use clauses and configuration specifications.    *)
(***************************************************************************)
declaration_to_string(decl) ==
    CASE decl.variant = "Object" -> <<decl.name>>
      [] decl.variant = "File" -> <<decl.name>>
      [] decl.variant = "Type" -> <<decl.name>>
      [] decl.variant = "Component" -> <<decl.name>>
      [] decl.variant = "AttributeSpecification" -> <<decl.name>>
      [] decl.variant = "AttributeDeclaration" -> <<decl.name>>
      [] decl.variant = "Alias" -> <<decl.name>>
      [] decl.variant = "SubprogramDeclaration" -> <<decl.name>>
      [] decl.variant = "SubprogramBody" -> <<>>
      [] decl.variant = "Use" -> <<>>
      [] decl.variant = "Package" -> <<decl.name>>
      [] decl.variant = "Configuration" -> <<>>

\* faulty variant: nothing is dropped
unique_all(s) == s

RECURSIVE unique_from(_, _)
\* itertools' unique(): every element but those seen before it
unique_from(s, seen) ==
    IF s = <<>> THEN <<>>
    ELSE IF Head(s) \in seen THEN unique_from(Tail(s), seen)
    ELSE <<Head(s)>> \o unique_from(Tail(s), seen \cup {Head(s)})

unique(s) == unique_from(s, {})

(***************************************************************************)
(* The listing helpers of DesignRoot.                                      *)
(***************************************************************************)
list_all_libraries(r) == [i \in DOMAIN r.libraries |-> r.libraries[i].name]

\* the closure of filter_map in list_primaries_for_lib, on one key
primary_name(key) ==
    IF key.tag = "Primary" THEN <<key.name>> ELSE <<>>

list_primaries_for_lib(r, lib) ==
    IF ~HasLibrary(r, lib) THEN <<>>
    ELSE LET units == get_library_units(r, lib)
         IN  Flatten([i \in DOMAIN units |-> primary_name(units[i].key)])

\* lib.get(&UnitKey::Primary(primary_unit)): the indexes of the unit keyed so
primary_lookup(units, primary_unit) ==
    {i \in DOMAIN units :
        units[i].key.tag = "Primary" /\ units[i].key.name = primary_unit}

\* faulty variant: "all" is chained to the result of the match, whatever the unit is
list_available_declarations_all(r, lib, primary_unit) ==
    IF ~HasLibrary(r, lib) THEN <<>>
    ELSE LET units == get_library_units(r, lib)
             found == primary_lookup(units, primary_unit)
         IN  IF found = {} THEN <<>>
             ELSE LET unit == units[CHOOSE i \in found : TRUE]
                  IN  (IF unit.kind = "Package"
                       THEN unique(Flatten([i \in DOMAIN unit.decl |->
                                               declaration_to_string(unit.decl[i])]))
                       ELSE <<>>) \o <<"all">>

list_available_declarations(r, lib, primary_unit) ==
    IF ~HasLibrary(r, lib) THEN <<>>
    ELSE LET units == get_library_units(r, lib)
             found == primary_lookup(units, primary_unit)
         IN  IF found = {} THEN <<>>
             ELSE LET unit == units[CHOOSE i \in found : TRUE]
                  IN  IF unit.kind = "Package"
                      THEN unique(Flatten([i \in DOMAIN unit.decl |->
                                              declaration_to_string(unit.decl[i])]))
                               \o <<"all">>
                      ELSE <<>>

(***************************************************************************)
(* list_completion_options: the match on the tail of the token slice.      *)
(* FromEnd(toks, k) is the k-th token from the end; the arms are tried in  *)
(* the order of the source and the first that matches decides.             *)
(***************************************************************************)
FromEnd(toks, k) == toks[Len(toks) - k + 1]

\* the pattern kind!(k)
is_kind(tok, k) == tok.kind = k

\* the pattern ident!(bind)
is_ident(tok) == tok.kind = "Identifier" /\ tok.value.tag = "Identifier"

\* faulty variant: the keyword all is completed like an identifier
last_pattern_all(tok) ==
    is_kind(tok, "StringLiteral") \/ is_kind(tok, "Identifier") \/ is_kind(tok, "All")

\* the pattern kind!(StringLiteral | Identifier)
last_pattern(tok) == is_kind(tok, "StringLiteral") \/ is_kind(tok, "Identifier")

NoMatch == [arm |-> "none", library |-> NoSymbol, selected |-> NoSymbol]

match_tail(toks) ==
    LET n == Len(toks)
        T(k) == FromEnd(toks, k)
    IN  IF \/ n >= 1 /\ is_kind(T(1), "Library")
           \/ n >= 1 /\ is_kind(T(1), "Use")
           \/ n >= 2 /\ is_kind(T(2), "Use") /\ is_kind(T(1), "Identifier")
        THEN [arm |-> "libraries", library |-> NoSymbol, selected |-> NoSymbol]
        ELSE IF n >= 3 /\ is_kind(T(3), "Use") /\ is_ident(T(2)) /\ is_kind(T(1), "Dot")
        THEN [arm |-> "primaries", library |-> T(2).value.sym, selected |-> NoSymbol]
        ELSE IF n >= 4 /\ is_kind(T(4), "Use") /\ is_ident(T(3)) /\ is_kind(T(2), "Dot")
                /\ is_kind(T(1), "Identifier")
        THEN [arm |-> "primaries", library |-> T(3).value.sym, selected |-> NoSymbol]
        ELSE IF n >= 5 /\ is_kind(T(5), "Use") /\ is_ident(T(4)) /\ is_kind(T(3), "Dot")
                /\ is_ident(T(2)) /\ is_kind(T(1), "Dot")
        THEN [arm |-> "declarations", library |-> T(4).value.sym,
              selected |-> T(2).value.sym]
        ELSE IF n >= 6 /\ is_kind(T(6), "Use") /\ is_ident(T(5)) /\ is_kind(T(4), "Dot")
                /\ is_ident(T(3)) /\ is_kind(T(2), "Dot")
                /\ last_pattern(T(1))
        THEN [arm |-> "declarations", library |-> T(5).value.sym,
              selected |-> T(3).value.sym]
        ELSE NoMatch

\* faulty variant: the second arm lists the libraries, as the first does
dispatch_libraries(r, m) ==
    CASE m.arm = "libraries" -> list_all_libraries(r)
      [] m.arm = "primaries" -> list_all_libraries(r)
      [] m.arm = "declarations" -> list_available_declarations(r, m.library, m.selected)
      [] m.arm = "none" -> <<>>

\* the arm's right-hand side
dispatch(r, m) ==
    CASE m.arm = "libraries" -> list_all_libraries(r)
      [] m.arm = "primaries" -> list_primaries_for_lib(r, m.library)
      [] m.arm = "declarations" -> list_available_declarations(r, m.library, m.selected)
      [] m.arm = "none" -> <<>>

list_completion_options(r, src, cur) ==
    dispatch(r, match_tail(tokenize_input(src, cur)))

(***************************************************************************)
(* Sources.  A lexeme is laid out after the text before it: right after    *)
(* it, after one space, or at the start of the next line; it is two        *)
(* characters wide.                                                        *)
(***************************************************************************)
EndOfText(src) ==
    IF src = <<>> THEN Pos(0, 0) ELSE src[Len(src)].token.pos.end

StartAfter(src, lead) ==
    LET e == EndOfText(src) IN
    CASE lead = "adjacent" -> e
      [] lead = "space" -> Pos(e.line, e.character + 1)
      [] lead = "newline" -> Pos(e.line + 1, 0)

\* the source extended by the lexeme c = [kind, sym, lead, ok]
Extend(src, c) ==
    LET start == StartAfter(src, c.lead)
    IN  Append(src, IF c.ok THEN OkLexeme(MkToken(c.kind, c.sym, start))
                    ELSE ErrLexeme(start))

RECURSIVE Layout(_)
Layout(cs) ==
    IF cs = <<>> THEN <<>>
    ELSE Extend(Layout(SubSeq(cs, 1, Len(cs) - 1)), cs[Len(cs)])

Lexeme(kind, sym, lead, ok) == [kind |-> kind, sym |-> sym, lead |-> lead, ok |-> ok]

\* every token the completion looks at, one space after the text before it
TypedLexemes ==
    {Lexeme(k, NoSymbol, "space", TRUE) : k \in {"Library", "Use", "Dot", "StringLiteral", "All"}}
    \cup {Lexeme("Identifier", s, "space", TRUE) : s \in Symbols}

\* the text of the source before the first edit
StartTexts ==
    {<<>>} \cup
    {Layout(<<Lexeme("Use", NoSymbol, "adjacent", TRUE),
              Lexeme("Identifier", s, "space", TRUE),
              Lexeme("Dot", NoSymbol, "adjacent", TRUE)>>) : s \in Symbols}

\* the lexemes of the sources of SpecTokenize: tokens in every layout, and
\* text the tokenizer rejects
LaidOutLexemes ==
    {Lexeme(k, "ieee", l, TRUE) : k \in {"Use", "Identifier"},
                                  l \in {"adjacent", "space", "newline"}}
    \cup {Lexeme("Error", NoSymbol, "space", FALSE)}

LaidOutSources ==
    {Layout(cs) : cs \in UNION {[1..n -> LaidOutLexemes] : n \in 0..MaxLexemes}}

\* every position of the text and one line and one column beyond it
Cursors(src) ==
    LET e == EndOfText(src)
        cols == {src[i].token.pos.end.character : i \in DOMAIN src} \cup {0}
        maxcol == CHOOSE c \in cols : \A d \in cols : d <= c
    IN  {Pos(l, c) : l \in 0..(e.line + 1), c \in 0..(maxcol + 1)}

\* the cursor of an edit: at the start of the last token, inside it, after it
EditCursors(src) ==
    IF src = <<>> THEN {Pos(0, 0)}
    ELSE LET t == src[Len(src)].token.pos
         IN  {t.start, Pos(t.start.line, t.start.character + 1), t.end}

\* the package declarations of the design roots of SpecLibrary; a declared
\* name is an identifier, an operator symbol or a character literal, so it
\* is never the reserved word all
DeclChoices ==
    {Decl(v, n) : v \in {"Object", "Type", "Alias", "SubprogramDeclaration"},
                  n \in {"x", "y"}}
    \cup {Decl(v, "x") : v \in {"File", "Component", "AttributeSpecification",
                                "AttributeDeclaration", "Package", "SubprogramBody"}}
    \cup {Decl(v, NoSymbol) : v \in {"Use", "Configuration"}}

DeclSeqs == UNION {[1..n -> DeclChoices] : n \in 0..MaxDecls}

\* the symbols the listing helpers are called with
LibraryArgs == {"ieee", "pkg", "ent"}

UnitArgs == {"pkg", "ent", "ieee"}

(***************************************************************************)
(* The completion operations.  cursor, lib_arg, unit_arg, tokens, options  *)
(* and op are the record of the last call: its arguments and what it       *)
(* returned (tokens is the local of list_completion_options).              *)
(***************************************************************************)
(***************************************************************************)
(* RegionSearcher.  A Range is { start, end }; Range::contains takes both  *)
(* ends in.                                                                *)
(***************************************************************************)
Rng(start, end) == [start |-> start, end |-> end]

contains(range, pos) == PosLE(range.start, pos) /\ PosGE(range.end, pos)

None == [some |-> FALSE, kind |-> "-", range |-> Rng(Pos(0, 0), Pos(0, 0))]

Some(kind, range) == [some |-> TRUE, kind |-> kind, range |-> range]

\* faulty variant: the new region replaces the old one when it starts later, wherever
\* it ends
search_region_start(sel, cur, range, kind) ==
    IF contains(range, cur)
    THEN IF sel.some
         THEN IF PosGE(range.start, sel.range.start) THEN Some(kind, range) ELSE sel
         ELSE Some(kind, range)
    ELSE sel

\* the region field after search_region(range, kind); the call returns
\* NotFinished
search_region(sel, cur, range, kind) ==
    IF contains(range, cur)
    THEN IF sel.some
         THEN IF PosGE(range.start, sel.range.start) /\ PosLE(range.end, sel.range.end)
              THEN Some(kind, range)
              ELSE sel
         ELSE Some(kind, range)
    ELSE sel

\* faulty variant: the comparison of the sources is inverted
search_source_other(self_source, src) ==
    IF src # self_source THEN "NotFinished" ELSE "Finished(NotFound)"

\* faulty variant: every source is searched
search_source_any(self_source, src) == "NotFinished"

search_source(self_source, src) ==
    IF src = self_source THEN "NotFinished" ELSE "Finished(NotFound)"

\* the positions of a source of two lines of two characters
Positions == {Pos(l, c) : l \in 0..1, c \in 0..1}

Ranges == {r \in {Rng(p, q) : p, q \in Positions} : PosLE(r.start, r.end)}

RegionCategories == {"DeclarativeRegion", "SequentialStatements"}

Sources == {"design.vhd", "other.vhd"}

\* the orders the traversal may walk the sources in
WalkOrders ==
    {<<"design.vhd", "other.vhd">>, <<"other.vhd", "design.vhd">>, <<"design.vhd">>}

NoRegion == [source |-> "-", kind |-> "-", range |-> Rng(Pos(0, 0), Pos(0, 0))]

RegionIdle ==
    /\ region = None
    /\ rs_cursor = Pos(0, 0)
    /\ rs_source = "design.vhd"
    /\ to_walk = <<>>
    /\ walking = "-"
    /\ state = "NotFinished"
    /\ visited = {}
    /\ last = NoRegion

InitRegion ==
    /\ region = None
    /\ rs_cursor \in Positions
    /\ rs_source = "design.vhd"
    /\ to_walk \in WalkOrders
    /\ walking = "-"
    /\ state = "NotFinished"
    /\ visited = {}
    /\ last = NoRegion

(***************************************************************************)
(* Types.  A type entity is known by its name; TypeTable gives its         *)
(* Type kind and, for an array, the number of its indexes and its element  *)
(* type.  StandardTypes are declared in the standard package, the others   *)
(* stand for the types of a design.                                        *)
(***************************************************************************)
NoType == "-"

Ty(name, kind, indexes, elem_type) ==
    [name |-> name, kind |-> kind, indexes |-> indexes, elem_type |-> elem_type]

TypeTable ==
    << Ty("BOOLEAN", "Enum", 0, NoType),
       Ty("BIT", "Enum", 0, NoType),
       Ty("CHARACTER", "Enum", 0, NoType),
       Ty("INTEGER", "Integer", 0, NoType),
       Ty("REAL", "Real", 0, NoType),
       Ty("TIME", "Physical", 0, NoType),
       Ty("NATURAL", "Subtype", 0, NoType),
       Ty("STRING", "Array", 1, "CHARACTER"),
       Ty("BOOLEAN_VECTOR", "Array", 1, "BOOLEAN"),
       Ty("BIT_VECTOR", "Array", 1, "BIT"),
       Ty("FILE_OPEN_KIND", "Enum", 0, NoType),
       Ty("FILE_OPEN_STATUS", "Enum", 0, NoType),
       Ty("universal_integer", "Universal", 0, NoType),
       Ty("REC_T", "Record", 0, NoType),
       Ty("ACC_T", "Access", 0, NoType),
       Ty("MATRIX_T", "Array", 2, "INTEGER"),
       Ty("TEXT", "File", 0, NoType),
       Ty("INT_FILE", "File", 0, NoType),
       Ty("PROT_T", "Protected", 0, NoType),
       Ty("INC_T", "Incomplete", 0, NoType),
       Ty("ALIAS_T", "Alias", 0, NoType),
       Ty("IFACE_T", "Interface", 0, NoType) >>

TypeNames == {TypeTable[i].name : i \in DOMAIN TypeTable}

\* typ.kind()
TypeOf(name) == TypeTable[CHOOSE i \in DOMAIN TypeTable : TypeTable[i].name = name]

StandardTypes ==
    {"BOOLEAN", "BIT", "CHARACTER", "INTEGER", "REAL", "TIME", "NATURAL", "STRING",
     "BOOLEAN_VECTOR", "BIT_VECTOR", "FILE_OPEN_KIND", "FILE_OPEN_STATUS"}

\* StandardRegion::lookup_type: the type of that name in the standard region
lookup_type(name) == CHOOSE t \in StandardTypes : t = name

(***************************************************************************)
(* Entities.  Arena::explicit makes the formals, Arena::implicit the       *)
(* subprogram, whose parent is the type it is an implicit of.  The id is   *)
(* given when the operation's entities are allocated, see allocate.        *)
(***************************************************************************)
Object(name, class, mode, subtype, has_default) ==
    [name |-> name, kind |-> "Object", class |-> class, mode |-> mode,
     subtype |-> subtype, has_default |-> has_default]

\* AnyEntKind::InterfaceFile(file_type): no class, no mode, no default
InterfaceFile(name, file_type) ==
    [name |-> name, kind |-> "InterfaceFile", class |-> "-", mode |-> "-",
     subtype |-> file_type, has_default |-> FALSE]

Identifier(name) == [tag |-> "Identifier", name |-> name]

OperatorSymbol(o) == [tag |-> "OperatorSymbol", name |-> o]

new_function_decl(formals, return_type) ==
    [kind |-> "Function", formals |-> formals, return_type |-> return_type]

new_procedure_decl(formals) ==
    [kind |-> "Procedure", formals |-> formals, return_type |-> NoType]

implicit(of, designator, decl) ==
    [id |-> 0, parent |-> of, designator |-> designator, kind |-> decl.kind,
     formals |-> decl.formals, return_type |-> decl.return_type]

\* the formal every implicit function takes: a constant of mode in
In(name, typ) == Object(name, "Constant", "In", typ, FALSE)

create_to_string(type_ent) ==
    implicit(type_ent, Identifier("TO_STRING"),
             new_function_decl(<<In("VALUE", type_ent)>>, lookup_type("STRING")))

create_min_or_maximum(name, type_ent) ==
    implicit(type_ent, Identifier(name),
             new_function_decl(<<In("L", type_ent), In("R", type_ent)>>, type_ent))

unary(o, typ, return_type) ==
    implicit(typ, OperatorSymbol(o), new_function_decl(<<In("V", typ)>>, return_type))

symmetric_unary(o, typ) == unary(o, typ, typ)

binary(o, implicit_of, left, right, return_type) ==
    implicit(implicit_of, OperatorSymbol(o),
             new_function_decl(<<In("L", left), In("R", right)>>, return_type))

symmetric_binary(o, typ) == binary(o, typ, typ, typ, typ)

comparison(o, typ) == binary(o, typ, typ, typ, lookup_type("BOOLEAN"))

minimum(type_ent) == create_min_or_maximum("MINIMUM", type_ent)

maximum(type_ent) == create_min_or_maximum("MAXIMUM", type_ent)

deallocate(type_ent) ==
    implicit(type_ent, Identifier("DEALLOCATE"),
             new_procedure_decl(<<Object("P", "Variable", "InOut", type_ent, FALSE)>>))

comparators(typ) ==
    << comparison("EQ", typ), comparison("NE", typ), comparison("LT", typ),
       comparison("LTE", typ), comparison("GT", typ), comparison("GTE", typ) >>

numeric_implicits(typ) ==
    << minimum(typ), maximum(typ), create_to_string(typ),
       symmetric_unary("Minus", typ), symmetric_unary("Plus", typ),
       symmetric_unary("Abs", typ),
       symmetric_binary("Plus", typ), symmetric_binary("Minus", typ) >>
    \o comparators(typ)

physical_implicits(typ) ==
    << minimum(typ), maximum(typ),
       symmetric_unary("Minus", typ), symmetric_unary("Plus", typ),
       symmetric_unary("Abs", typ),
       symmetric_binary("Plus", typ), symmetric_binary("Minus", typ) >>
    \o comparators(typ)

enum_implicits(typ) ==
    << create_to_string(typ), minimum(typ), maximum(typ) >> \o comparators(typ)

record_implicits(typ) == << comparison("EQ", typ), comparison("NE", typ) >>

\* faulty variant: the concatenations with an element are implicits of the element type
concatenations_of_elem(array_type, elem_type) ==
    << binary("Concat", elem_type, array_type, elem_type, array_type),
       binary("Concat", elem_type, elem_type, array_type, array_type),
       symmetric_binary("Concat", array_type),
       binary("Concat", elem_type, elem_type, elem_type, array_type) >>

concatenations(array_type, elem_type) ==
    << binary("Concat", array_type, array_type, elem_type, array_type),
       binary("Concat", array_type, elem_type, array_type, array_type),
       symmetric_binary("Concat", array_type),
       binary("Concat", array_type, elem_type, elem_type, array_type) >>

array_implicits(typ) ==
    LET is_one_dimensional == TypeOf(typ).indexes = 1
    IN  << create_to_string(typ), comparison("EQ", typ), comparison("NE", typ) >>
        \o (IF is_one_dimensional THEN concatenations(typ, TypeOf(typ).elem_type)
            ELSE <<>>)

access_implicits(typ) ==
    << deallocate(typ), comparison("EQ", typ), comparison("NE", typ) >>

\* faulty variant: a physical type gets the implicits of a numeric type
type_implicits_numeric(typ) ==
    LET k == TypeOf(typ).kind IN
    CASE k = "Access" -> access_implicits(typ)
      [] k = "Enum" -> enum_implicits(typ)
      [] k \in {"Integer", "Real", "Physical"} -> numeric_implicits(typ)
      [] k = "Record" -> record_implicits(typ)
      [] k = "Array" -> array_implicits(typ)
      [] OTHER -> <<>>

type_implicits(typ) ==
    LET k == TypeOf(typ).kind IN
    CASE k = "Access" -> access_implicits(typ)
      [] k = "Enum" -> enum_implicits(typ)
      [] k = "Integer" -> numeric_implicits(typ)
      [] k = "Real" -> numeric_implicits(typ)
      [] k = "Record" -> record_implicits(typ)
      [] k = "Physical" -> physical_implicits(typ)
      [] k = "Array" -> array_implicits(typ)
      [] k = "Universal" -> <<>>
      [] k \in {"Interface", "Alias", "Protected", "Incomplete", "File", "Subtype"} -> <<>>

(***************************************************************************)
(* create_implicit_file_type_subprograms, block by block.                  *)
(***************************************************************************)
file_open(file_type) ==
    implicit(file_type, Identifier("FILE_OPEN"),
        new_procedure_decl(
            << InterfaceFile("F", file_type),
               Object("External_Name", "Constant", "In", lookup_type("STRING"), FALSE),
               Object("Open_Kind", "Constant", "In", lookup_type("FILE_OPEN_KIND"), TRUE) >>))

file_open_with_status(file_type) ==
    implicit(file_type, Identifier("FILE_OPEN"),
        new_procedure_decl(
            << Object("Status", "Variable", "Out", lookup_type("FILE_OPEN_STATUS"), FALSE),
               InterfaceFile("F", file_type),
               Object("External_Name", "Constant", "In", lookup_type("STRING"), FALSE),
               Object("Open_Kind", "Constant", "In", lookup_type("FILE_OPEN_KIND"), TRUE) >>))

file_close(file_type) ==
    implicit(file_type, Identifier("FILE_CLOSE"),
        new_procedure_decl(<< InterfaceFile("F", file_type) >>))

\* faulty variant: VALUE is the constant of mode in that WRITE takes
file_read_in(file_type, type_mark) ==
    implicit(file_type, Identifier("READ"),
        new_procedure_decl(
            << InterfaceFile("F", file_type),
               Object("VALUE", "Constant", "In", type_mark, FALSE) >>))

file_read(file_type, type_mark) ==
    implicit(file_type, Identifier("READ"),
        new_procedure_decl(
            << InterfaceFile("F", file_type),
               Object("VALUE", "Variable", "Out", type_mark, FALSE) >>))

file_write(file_type, type_mark) ==
    implicit(file_type, Identifier("WRITE"),
        new_procedure_decl(
            << InterfaceFile("F", file_type),
               Object("VALUE", "Constant", "In", type_mark, FALSE) >>))

file_flush(file_type) ==
    implicit(file_type, Identifier("FLUSH"),
        new_procedure_decl(<< InterfaceFile("F", file_type) >>))

endfile(file_type) ==
    implicit(file_type, Identifier("ENDFILE"),
        new_function_decl(<< InterfaceFile("F", file_type) >>, lookup_type("BOOLEAN")))

create_implicit_file_type_subprograms(file_type, type_mark) ==
    << file_open(file_type), file_open_with_status(file_type), file_close(file_type),
       file_read(file_type, type_mark), file_write(file_type, type_mark),
       file_flush(file_type), endfile(file_type) >>

(***************************************************************************)
(* The arena gives ids in the order of allocation: the formals of a        *)
(* subprogram first, then the subprogram.                                  *)
(***************************************************************************)
RECURSIVE allocated(_)
allocated(ents) ==
    IF ents = <<>> THEN 0
    ELSE IF Len(ents) = 1 THEN Len(ents[1].formals) + 1
    ELSE LET h == Len(ents) \div 2
         IN  allocated(SubSeq(ents, 1, h)) + allocated(SubSeq(ents, h + 1, Len(ents)))

RECURSIVE allocate(_, _)
allocate(ents, next) ==
    IF ents = <<>> THEN <<>>
    ELSE IF Len(ents) = 1
    THEN <<[ents[1] EXCEPT !.id = next + Len(ents[1].formals)]>>
    ELSE LET h == Len(ents) \div 2
             left == SubSeq(ents, 1, h)
         IN  allocate(left, next)
             \o allocate(SubSeq(ents, h + 1, Len(ents)), next + allocated(left))

\* Type::implicits(): the kinds whose variant holds an implicits slot
has_implicits(typ) ==
    TypeOf(typ).kind \in {"Array", "Enum", "Real", "Integer", "Physical", "Access",
                          "Record", "Universal"}

SlotTypes == {t \in TypeNames : has_implicits(t)}

FileTypes == {t \in TypeNames : TypeOf(t).kind = "File"}

\* the type marks of the file types of the design
TypeMarks == {"STRING", "INTEGER"}

(***************************************************************************)
(* end_of_package_implicits.  The immediates of the standard region, in    *)
(* the order region.immediates() yields them: the types, the attribute     *)
(* FOREIGN (a single entity that is no type) and the overloaded NOW.       *)
(***************************************************************************)
Immediate(tag, name) == [tag |-> tag, name |-> name]

StandardImmediates ==
    << Immediate("Single", "BOOLEAN"), Immediate("Single", "BIT"),
       Immediate("Single", "CHARACTER"), Immediate("Overloaded", "NOW"),
       Immediate("Single", "INTEGER"), Immediate("Single", "REAL"),
       Immediate("Single", "TIME"), Immediate("Single", "NATURAL"),
       Immediate("Single", "STRING"), Immediate("Single", "FOREIGN"),
       Immediate("Single", "BOOLEAN_VECTOR"), Immediate("Single", "BIT_VECTOR"),
       Immediate("Single", "FILE_OPEN_KIND"), Immediate("Single", "FILE_OPEN_STATUS") >>

\* TypeEnt::from_any(ent) is Some
is_type_ent(name) == name \in StandardTypes

\* an entity with the type whose slot it is pushed into
Push(typ, ent) == [slot |-> typ, ent |-> ent]

PushAll(typ, ents) == [i \in DOMAIN ents |-> Push(typ, ents[i])]

RECURSIVE ConcatAll(_)
ConcatAll(seqs) == IF seqs = <<>> THEN <<>> ELSE Head(seqs) \o ConcatAll(Tail(seqs))

\* faulty variant: a type whose slot is filled already is passed over
region_implicits_once(imm) ==
    ConcatAll([i \in DOMAIN imm |->
        LET ent == imm[i] IN
        IF /\ ent.tag = "Single"
           /\ is_type_ent(ent.name)
           /\ has_implicits(ent.name) => implicits[ent.name] = <<>>
        THEN PushAll(ent.name, type_implicits(ent.name))
        ELSE <<>>])

\* the loop over region.immediates()
region_implicits(imm) ==
    ConcatAll([i \in DOMAIN imm |->
        LET ent == imm[i] IN
        IF ent.tag = "Single" /\ is_type_ent(ent.name)
        THEN PushAll(ent.name, type_implicits(ent.name))
        ELSE <<>>])

\* faulty variant: the entity is pushed into the slot of the type it returns
time_to_string_of_string ==
    << Push(lookup_type("STRING"), create_to_string(lookup_type("TIME"))) >>

time_to_string == << Push(lookup_type("TIME"), create_to_string(lookup_type("TIME"))) >>

\* the loop over BOOLEAN and BIT
logical_implicits(name) ==
    LET typ == lookup_type(name)
    IN  PushAll(typ,
            << symmetric_binary("And", typ), symmetric_binary("Or", typ),
               symmetric_binary("Nand", typ), symmetric_binary("Nor", typ),
               symmetric_binary("Xor", typ), symmetric_binary("Xnor", typ),
               symmetric_unary("Not", typ) >>)

\* name.strip_suffix("_VECTOR")
strip_suffix_vector(name) ==
    CASE name = "BOOLEAN_VECTOR" -> "BOOLEAN"
      [] name = "BIT_VECTOR" -> "BIT"

\* faulty variant: not is among the operators of the vector loop
VectorOpsWithNot == <<"And", "Or", "Nand", "Nor", "Xor", "Xnor", "Not">>

VectorOps == <<"And", "Or", "Nand", "Nor", "Xor", "Xnor">>

\* the four entities the vector loop makes for one operator
vector_op_implicits(o, atyp, styp) ==
    << symmetric_binary(o, atyp),
       IF o = "Not" THEN unary(o, atyp, atyp) ELSE unary(o, atyp, styp),
       binary(o, atyp, atyp, styp, atyp),
       binary(o, atyp, atyp, atyp, styp) >>

\* the loop over BOOLEAN_VECTOR and BIT_VECTOR
vector_implicits(name) ==
    LET atyp == lookup_type(name)
        styp == lookup_type(strip_suffix_vector(name))
    IN  PushAll(atyp,
            ConcatAll([i \in DOMAIN VectorOps |->
                          vector_op_implicits(VectorOps[i], atyp, styp)]))

\* the predefined overloaded TO_STRING operations
overloaded_to_string ==
    LET real == lookup_type("REAL")
        natural == lookup_type("NATURAL")
        string == lookup_type("STRING")
        time == lookup_type("TIME")
    IN  << Push(real, implicit(real, Identifier("TO_STRING"),
                    new_function_decl(<<In("VALUE", real), In("DIGITS", natural)>>,
                                      string))),
           Push(real, implicit(real, Identifier("TO_STRING"),
                    new_function_decl(<<In("VALUE", real), In("FORMAT", string)>>,
                                      string))),
           Push(time, implicit(time, Identifier("TO_STRING"),
                    new_function_decl(<<In("VALUE", time), In("UNIT", time)>>,
                                      string))) >>

\* faulty variant: the operators of the vector types are made before those of
\* the scalar types
end_of_package_implicits_vectors_first(imm) ==
    region_implicits(imm)
    \o time_to_string
    \o vector_implicits("BOOLEAN_VECTOR") \o vector_implicits("BIT_VECTOR")
    \o logical_implicits("BOOLEAN") \o logical_implicits("BIT")
    \o overloaded_to_string

\* every entity end_of_package_implicits makes, in order, with its slot
end_of_package_implicits(imm) ==
    region_implicits(imm)
    \o time_to_string
    \o logical_implicits("BOOLEAN") \o logical_implicits("BIT")
    \o vector_implicits("BOOLEAN_VECTOR") \o vector_implicits("BIT_VECTOR")
    \o overloaded_to_string

\* faulty variant: the slot is filled anew at every run
pushed_anew(slots, pushes, ents, typ) ==
    LET mine == SelectSeq([i \in DOMAIN ents |-> [slot |-> pushes[i].slot, id |-> ents[i].id]],
                          LAMBDA x : x.slot = typ)
    IN  [i \in DOMAIN mine |-> mine[i].id]

\* the slot of typ after the pushes of the entities made, when typ has a slot
pushed(slots, pushes, ents, typ) ==
    LET mine == SelectSeq([i \in DOMAIN ents |-> [slot |-> pushes[i].slot, id |-> ents[i].id]],
                          LAMBDA x : x.slot = typ)
    IN  slots[typ] \o [i \in DOMAIN mine |-> mine[i].id]

\* the order of the immediates is that of a hash map: any order, the same at
\* every iteration over the same region
Reverse(s) == [i \in DOMAIN s |-> s[Len(s) + 1 - i]]

Rotate(s, k) == SubSeq(s, k + 1, Len(s)) \o SubSeq(s, 1, k)

ImmediateOrders ==
    {StandardImmediates, Reverse(StandardImmediates), Rotate(StandardImmediates, 5)}

StandardStart ==
    /\ arena = 0
    /\ implicits = [t \in SlotTypes |-> <<>>]
    /\ res = <<>>
    /\ std_op = "none"
    /\ std_typ = NoType
    /\ std_mark = NoType
    /\ std_calls = 0

StandardIdle ==
    /\ StandardStart
    /\ immediates = StandardImmediates

NoCall ==
    /\ cursor = Pos(0, 0)
    /\ lib_arg = NoSymbol
    /\ unit_arg = NoSymbol
    /\ tokens = <<>>
    /\ options = <<>>
    /\ op = "none"

CompletionIdle ==
    /\ root = DesignRoot
    /\ source = <<>>
    /\ NoCall

InitCompletion ==
    /\ root = DesignRoot
    /\ source \in StartTexts
    /\ NoCall
    /\ RegionIdle
    /\ StandardIdle

InitTokenize ==
    /\ root = DesignRoot
    /\ source \in LaidOutSources
    /\ NoCall
    /\ RegionIdle
    /\ StandardIdle

InitLibrary ==
    /\ root \in {RootWith(d) : d \in DeclSeqs}
    /\ source = <<>>
    /\ NoCall
    /\ RegionIdle
    /\ StandardIdle

\* The operations below are pure and leave root and source alone: a call made
\* over the record of an earlier call reaches no state that the same call made
\* right after the edit does not, so calls are made from the idle state.
Idle == op = "none"

IsPrefix(p, s) == Len(p) <= Len(s) /\ SubSeq(s, 1, Len(p)) = p

\* an edit of the source: one more token at its end
Type(c) ==
    /\ \E st \in StartTexts : IsPrefix(st, source) /\ Len(source) - Len(st) < MaxTyped
    /\ source' = Extend(source, c)
    /\ cursor' = Pos(0, 0)
    /\ lib_arg' = NoSymbol
    /\ unit_arg' = NoSymbol
    /\ tokens' = <<>>
    /\ options' = <<>>
    /\ op' = "none"
    /\ UNCHANGED <<root, region_vars, std_vars>>

TokenizeInput(cur) ==
    /\ Idle
    /\ op' = "tokenize_input"
    /\ cursor' = cur
    /\ tokens' = tokenize_input(source, cur)
    /\ options' = <<>>
    /\ lib_arg' = NoSymbol
    /\ unit_arg' = NoSymbol
    /\ UNCHANGED <<root, source, region_vars, std_vars>>

ListCompletionOptions(cur) ==
    /\ Idle
    /\ op' = "list_completion_options"
    /\ cursor' = cur
    /\ tokens' = tokenize_input(source, cur)
    /\ options' = list_completion_options(root, source, cur)
    /\ lib_arg' = NoSymbol
    /\ unit_arg' = NoSymbol
    /\ UNCHANGED <<root, source, region_vars, std_vars>>

ListAllLibraries ==
    /\ Idle
    /\ op' = "list_all_libraries"
    /\ options' = list_all_libraries(root)
    /\ lib_arg' = NoSymbol
    /\ unit_arg' = NoSymbol
    /\ UNCHANGED <<root, source, cursor, tokens, region_vars, std_vars>>

ListPrimariesForLib(lib) ==
    /\ Idle
    /\ op' = "list_primaries_for_lib"
    /\ lib_arg' = lib
    /\ unit_arg' = NoSymbol
    /\ options' = list_primaries_for_lib(root, lib)
    /\ UNCHANGED <<root, source, cursor, tokens, region_vars, std_vars>>

ListAvailableDeclarations(lib, primary_unit) ==
    /\ Idle
    /\ op' = "list_available_declarations"
    /\ lib_arg' = lib
    /\ unit_arg' = primary_unit
    /\ options' = list_available_declarations(root, lib, primary_unit)
    /\ UNCHANGED <<root, source, cursor, tokens, region_vars, std_vars>>

NextCompletion ==
    \/ \E c \in TypedLexemes : Type(c)
    \/ \E cur \in EditCursors(source) : ListCompletionOptions(cur)

NextTokenize ==
    \/ \E cur \in Cursors(source) : TokenizeInput(cur)
    \/ \E cur \in Cursors(source) : ListCompletionOptions(cur)

NextLibrary ==
    \/ ListAllLibraries
    \/ \E lib \in LibraryArgs : ListPrimariesForLib(lib)
    \/ \E lib \in LibraryArgs, u \in UnitArgs : ListAvailableDeclarations(lib, u)

\* the completion proposer on a source being typed
Spec == InitCompletion /\ [][NextCompletion]_vars

\* tokenize_input and the proposer on laid out sources the tokenizer may reject
SpecTokenize == InitTokenize /\ [][NextTokenize]_vars

\* the listing helpers on design roots whose package varies
SpecLibrary == InitLibrary /\ [][NextLibrary]_vars

(***************************************************************************)
(* The traversal of the design with a RegionSearcher: for each source in   *)
(* turn search_source, and, unless that returned Finished, search_region   *)
(* for the regions of the source.                                          *)
(***************************************************************************)
SearchSource ==
    /\ to_walk # <<>>
    /\ walking' = Head(to_walk)
    /\ to_walk' = Tail(to_walk)
    /\ state' = search_source(rs_source, Head(to_walk))
    /\ UNCHANGED <<region, rs_cursor, rs_source, visited, last, completion_vars, std_vars>>

SearchRegion(range, kind) ==
    LET r == [source |-> walking, kind |-> kind, range |-> range] IN
    /\ walking # "-"
    /\ state = "NotFinished"
    /\ r \in visited \/ Cardinality(visited) < MaxVisited
    /\ region' = search_region(region, rs_cursor, range, kind)
    /\ state' = "NotFinished"
    /\ visited' = visited \cup {r}
    /\ last' = r
    /\ UNCHANGED <<rs_cursor, rs_source, to_walk, walking, completion_vars, std_vars>>

NextRegion ==
    \/ SearchSource
    \/ \E range \in Ranges, kind \in RegionCategories : SearchRegion(range, kind)

\* the region locator on a design of two sources
InitSearcher ==
    /\ InitRegion
    /\ CompletionIdle
    /\ StandardIdle

SpecRegion == InitSearcher /\ [][NextRegion]_vars

(***************************************************************************)
(* Properties of RegionSearcher (SpecRegion).                              *)
(***************************************************************************)
Nested(a, b) == PosGE(a.start, b.start) /\ PosLE(a.end, b.end)

Disjoint(a, b) == PosLT(a.end, b.start) \/ PosLT(b.end, a.start)

\* any two regions are nested or disjoint, and no two have the same range
Laminar(rs) ==
    \A a, b \in rs :
        a # b => /\ a.range # b.range
                 /\ \/ Nested(a.range, b.range)
                    \/ Nested(b.range, a.range)
                    \/ Disjoint(a.range, b.range)

\* C7: after search_region has been called, in any order, on regions of the
\* target source of which any two are nested or disjoint and no two have the
\* same range, the result is the smallest region that contains the cursor, and
\* none exactly when no region visited contains it
C7_SmallestRegionSelected ==
    (Laminar(visited) /\ \A r \in visited : r.source = rs_source) =>
        LET around == {r \in visited : contains(r.range, rs_cursor)}
        IN  /\ region.some <=> around # {}
            /\ region.some =>
                  /\ \E r \in around : r.kind = region.kind /\ r.range = region.range
                  /\ \A r \in around : Nested(region.range, r.range)

\* a declarative region inside a region of sequential statements, itself inside
\* a third region, is the result although an enclosing region was visited last
C7_Witness ==
    /\ Laminar(visited)
    /\ Cardinality(visited) = 3
    /\ \A r \in visited : contains(r.range, rs_cursor)
    /\ region.some
    /\ region.kind = "DeclarativeRegion"
    /\ \E r \in visited :
          /\ r.kind = "SequentialStatements"
          /\ Nested(region.range, r.range)
          /\ r.range # region.range
    /\ last.range # region.range

(***************************************************************************)
(* The synthesizer operations.                                             *)
(***************************************************************************)
\* faulty variant: the entities made are pushed into the slot of the type as well
TypeImplicitsPushed(typ) ==
    /\ std_calls < MaxCalls
    /\ std_calls' = std_calls + 1
    /\ std_op' = "type_implicits"
    /\ std_typ' = typ
    /\ std_mark' = NoType
    /\ res' = allocate(type_implicits(typ), arena)
    /\ arena' = arena + allocated(type_implicits(typ))
    /\ implicits' = [t \in SlotTypes |->
                        IF t = typ
                        THEN implicits[t] \o [i \in DOMAIN res' |-> res'[i].id]
                        ELSE implicits[t]]
    /\ UNCHANGED <<immediates, completion_vars, region_vars>>

TypeImplicits(typ) ==
    /\ std_calls < MaxCalls
    /\ std_calls' = std_calls + 1
    /\ std_op' = "type_implicits"
    /\ std_typ' = typ
    /\ std_mark' = NoType
    /\ res' = allocate(type_implicits(typ), arena)
    /\ arena' = arena + allocated(type_implicits(typ))
    /\ UNCHANGED <<implicits, immediates, completion_vars, region_vars>>

CreateImplicitFileTypeSubprograms(file_type, type_mark) ==
    /\ std_calls < MaxCalls
    /\ std_calls' = std_calls + 1
    /\ std_op' = "create_implicit_file_type_subprograms"
    /\ std_typ' = file_type
    /\ std_mark' = type_mark
    /\ res' = allocate(create_implicit_file_type_subprograms(file_type, type_mark), arena)
    /\ arena' = arena + allocated(create_implicit_file_type_subprograms(file_type, type_mark))
    /\ UNCHANGED <<implicits, immediates, completion_vars, region_vars>>

EndOfPackageImplicits ==
    /\ std_calls < MaxCalls
    /\ \E pushes \in {end_of_package_implicits(immediates)} :
       \E ents \in {allocate([i \in DOMAIN pushes |-> pushes[i].ent], arena)} :
          /\ std_calls' = std_calls + 1
          /\ std_op' = "end_of_package_implicits"
          /\ std_typ' = NoType
          /\ std_mark' = NoType
          /\ res' = ents
          /\ arena' = arena + allocated(ents)
          /\ implicits' = [t \in SlotTypes |-> pushed(implicits, pushes, ents, t)]
          /\ UNCHANGED <<immediates, completion_vars, region_vars>>

NextStandard ==
    \/ \E typ \in TypeNames : TypeImplicits(typ)
    \/ \E ft \in FileTypes, tm \in TypeMarks : CreateImplicitFileTypeSubprograms(ft, tm)
    \/ EndOfPackageImplicits

\* the implicit declarations of the standard package and of the types of a design
InitStandard ==
    /\ CompletionIdle
    /\ RegionIdle
    /\ StandardStart
    /\ immediates \in ImmediateOrders

SpecStandard == InitStandard /\ [][NextStandard]_vars

(***************************************************************************)
(* Properties of tokenize_input (SpecTokenize).                            *)
(***************************************************************************)
\* the tokens of the source, in source order
SourceTokens(src) ==
    LET oks == SelectSeq(src, LAMBDA l : l.ok)
    IN  [i \in DOMAIN oks |-> oks[i].token]

\* a pop made by tokenize_input returns Err: every lexeme before the rejected
\* one is a token that starts before the cursor
ErrorReported(src, cur) ==
    \E i \in DOMAIN src :
        /\ ~src[i].ok
        /\ \A j \in 1..(i - 1) : src[j].ok /\ PosLT(src[j].token.pos.start, cur)

\* C1: when the tokenizer reports no error, tokenize_input returns exactly the
\* tokens, in source order, that start strictly before the cursor
C1_TokensBeforeCursor ==
    (op = "tokenize_input" /\ ~ErrorReported(source, cursor))
        => tokens = SelectSeq(SourceTokens(source),
                              LAMBDA t : PosLT(t.pos.start, cursor))

\* a token on the second line that starts before the cursor and ends after it is
\* the last one returned, and a token after it is left out
C1_Witness ==
    /\ op = "tokenize_input"
    /\ ~ErrorReported(source, cursor)
    /\ tokens # <<>>
    /\ Len(tokens) < Len(source)
    /\ LET t == tokens[Len(tokens)]
       IN  /\ t.pos.start.line > 0
           /\ PosLT(t.pos.start, cursor)
           /\ PosLT(cursor, t.pos.end)
           /\ source[Len(tokens) + 1].ok

\* C4: if a pop made by tokenize_input returns an error, tokenize_input returns
\* the empty list and list_completion_options returns the empty list
C4_ErrorGivesEmpty ==
    (op \in {"tokenize_input", "list_completion_options"}
        /\ ErrorReported(source, cursor))
        => tokens = <<>> /\ options = <<>>

\* USE was collected, the lexeme at the cursor is rejected, and the completion
\* is empty where USE alone would list the libraries
C4_Witness ==
    /\ op = "list_completion_options"
    /\ Len(source) = 2
    /\ source[1].ok /\ source[1].token.kind = "Use"
    /\ PosLT(source[1].token.pos.start, cursor)
    /\ ~source[2].ok
    /\ source[2].token.pos.start = cursor
    /\ tokens = <<>>
    /\ options = <<>>
    /\ dispatch(root, match_tail(<<source[1].token>>)) # <<>>

(***************************************************************************)
(* Properties of list_completion_options (Spec).                           *)
(***************************************************************************)
\* the kinds of the last n tokens
KindTail(toks, n) == [i \in 1..n |-> toks[Len(toks) - n + i].kind]

HasTail(toks, kinds) ==
    Len(toks) >= Len(kinds) /\ KindTail(toks, Len(kinds)) = kinds

\* the cursor is inside the last token returned
CursorInsideLast ==
    /\ tokens # <<>>
    /\ PosLT(tokens[Len(tokens)].pos.start, cursor)
    /\ PosLT(cursor, tokens[Len(tokens)].pos.end)

UseLibPkgAll == <<"Use", "Identifier", "Dot", "Identifier", "Dot", "All">>

\* the symbol of the k-th token of the last n
TailSym(toks, n, k) == toks[Len(toks) - n + k].value.sym

\* C2, as claimed: with the cursor inside the trailing all of use LIB.PKG.all the
\* completion is the declarations of package PKG of library LIB, then "all"
C2_AllListsDeclarations ==
    (op = "list_completion_options" /\ HasTail(tokens, UseLibPkgAll) /\ CursorInsideLast)
        => options = list_available_declarations(root, TailSym(tokens, 6, 2),
                                                 TailSym(tokens, 6, 4))

\* C2, amended: with the cursor inside the trailing all of use LIB.PKG.all the
\* completion is empty
C2_AllListsNothing ==
    (op = "list_completion_options" /\ HasTail(tokens, UseLibPkgAll) /\ CursorInsideLast)
        => options = <<>>

\* use ieee.pkg.all with the cursor inside all, where ieee.pkg has declarations
C2_Witness ==
    /\ op = "list_completion_options"
    /\ HasTail(tokens, UseLibPkgAll)
    /\ CursorInsideLast
    /\ TailSym(tokens, 6, 2) = "ieee"
    /\ TailSym(tokens, 6, 4) = "pkg"
    /\ Len(list_available_declarations(root, "ieee", "pkg")) > 1
    /\ options = <<>>

\* the rows of the tail-pattern table: the kinds allowed at each place of the
\* tail, and what the row lists
TableRows ==
    << [pat |-> <<{"Library"}>>, lists |-> "libraries"],
       [pat |-> <<{"Use"}>>, lists |-> "libraries"],
       [pat |-> <<{"Use"}, {"Identifier"}>>, lists |-> "libraries"],
       [pat |-> <<{"Use"}, {"Identifier"}, {"Dot"}>>, lists |-> "primaries"],
       [pat |-> <<{"Use"}, {"Identifier"}, {"Dot"}, {"Identifier"}>>,
        lists |-> "primaries"],
       [pat |-> <<{"Use"}, {"Identifier"}, {"Dot"}, {"Identifier"}, {"Dot"}>>,
        lists |-> "declarations"],
       [pat |-> <<{"Use"}, {"Identifier"}, {"Dot"}, {"Identifier"}, {"Dot"},
                  {"Identifier", "StringLiteral"}>>,
        lists |-> "declarations"] >>

RowApplies(toks, row) ==
    /\ Len(toks) >= Len(row.pat)
    /\ \A i \in DOMAIN row.pat : KindTail(toks, Len(row.pat))[i] \in row.pat[i]

\* what the row lists: the library is named by the first identifier after
\* USE, the unit by the second
RowResult(r, toks, row) ==
    LET n == Len(row.pat) IN
    CASE row.lists = "libraries" -> list_all_libraries(r)
      [] row.lists = "primaries" -> list_primaries_for_lib(r, TailSym(toks, n, 2))
      [] row.lists = "declarations" ->
            list_available_declarations(r, TailSym(toks, n, 2), TailSym(toks, n, 4))

\* C3: list_completion_options returns what the one row of the tail-pattern
\* table that applies to the tokens lists, and the empty list when none applies;
\* at most one row applies
C3_DispatchFollowsTable ==
    op = "list_completion_options" =>
        LET applying == {i \in DOMAIN TableRows : RowApplies(tokens, TableRows[i])}
        IN  /\ Cardinality(applying) <= 1
            /\ applying = {} => options = <<>>
            /\ \A i \in applying : options = RowResult(root, tokens, TableRows[i])

\* the last row, ended by a string literal, lists the declarations of ieee.pkg
C3_Witness ==
    /\ op = "list_completion_options"
    /\ RowApplies(tokens, TableRows[7])
    /\ tokens[Len(tokens)].kind = "StringLiteral"
    /\ TailSym(tokens, 6, 2) = "ieee"
    /\ TailSym(tokens, 6, 4) = "pkg"
    /\ Len(options) > 1
    /\ options[Len(options)] = "all"

(***************************************************************************)
(* Properties of the listing helpers (SpecLibrary).                        *)
(***************************************************************************)
Registered(r, lib) == lib \in {r.libraries[i].name : i \in DOMAIN r.libraries}

\* the units of the library keyed Primary(name)
PrimaryUnits(r, lib, name) ==
    {u \in UNION {Range(r.libraries[i].units) :
                     i \in {j \in DOMAIN r.libraries : r.libraries[j].name = lib}} :
        u.key.tag = "Primary" /\ u.key.name = name}

\* C5: list_primaries_for_lib is empty for a library that is not registered;
\* list_available_declarations is empty, with no trailing "all", for a library
\* that is not registered, a primary unit that does not exist, and a primary unit
\* that is not a package
C5_UnknownGivesEmpty ==
    /\ (op = "list_primaries_for_lib" /\ ~Registered(root, lib_arg)) => options = <<>>
    /\ (op = "list_available_declarations"
            /\ \/ ~Registered(root, lib_arg)
               \/ PrimaryUnits(root, lib_arg, unit_arg) = {}
               \/ \E u \in PrimaryUnits(root, lib_arg, unit_arg) : u.kind # "Package")
        => options = <<>>

\* the declarations of the entity ieee.ent were asked for
C5_Witness ==
    /\ op = "list_available_declarations"
    /\ Registered(root, lib_arg)
    /\ \E u \in PrimaryUnits(root, lib_arg, unit_arg) : u.kind = "Entity"
    /\ options = <<>>

\* the strings of the declarations that have one, in declaration order
DeclStrings(decls) ==
    LET named == SelectSeq(decls, LAMBDA d :
                     d.variant \notin {"SubprogramBody", "Use", "Configuration"})
    IN  [i \in DOMAIN named |-> named[i].name]

FirstIndex(s, x) == CHOOSE i \in DOMAIN s : s[i] = x /\ \A j \in 1..(i - 1) : s[j] # x

\* C6: for a package, list_available_declarations returns the strings of its
\* declarations in the order of their first occurrence, each once, then "all";
\* subprogram bodies, use clauses and configuration specifications give no
\* string, and no string is returned twice
C6_DeclarationsUniqueThenAll ==
    (op = "list_available_declarations"
        /\ \E u \in PrimaryUnits(root, lib_arg, unit_arg) : u.kind = "Package")
        => \A u \in PrimaryUnits(root, lib_arg, unit_arg) :
            LET strs == DeclStrings(u.decl)
                n == Len(options)
            IN  /\ n >= 1
                /\ options[n] = "all"
                /\ \A i, j \in 1..n : i # j => options[i] # options[j]
                /\ {options[i] : i \in 1..(n - 1)} = Range(strs)
                /\ \A i, j \in 1..(n - 1) :
                      i < j => FirstIndex(strs, options[i]) < FirstIndex(strs, options[j])

\* a package declaring x, y and x again, and a declaration without a string
C6_Witness ==
    /\ op = "list_available_declarations"
    /\ \E u \in PrimaryUnits(root, lib_arg, unit_arg) :
          /\ u.kind = "Package"
          /\ Len(u.decl) = 3
          /\ DeclStrings(u.decl) = <<"x", "y", "x">>
    /\ options = <<"x", "y", "all">>

(***************************************************************************)
(* Properties of type_implicits and of the file type subprograms           *)
(* (SpecStandard).                                                         *)
(***************************************************************************)
\* an entity's designator and the number of its formals
Shape(e) == <<e.designator.tag, e.designator.name, Len(e.formals)>>

Shapes(ents) == [i \in DOMAIN ents |-> Shape(ents[i])]

Named(name, arity) == <<"Identifier", name, arity>>

Oper(o, arity) == <<"OperatorSymbol", o, arity>>

ComparatorNames == {"EQ", "NE", "LT", "LTE", "GT", "GTE"}

SixComparators ==
    << Oper("EQ", 2), Oper("NE", 2), Oper("LT", 2), Oper("LTE", 2), Oper("GT", 2),
       Oper("GTE", 2) >>

\* the designators type_implicits is to return for a kind, in order
ExpectedShapes(kind) ==
    CASE kind \in {"Integer", "Real"} ->
            << Named("MINIMUM", 2), Named("MAXIMUM", 2), Named("TO_STRING", 1),
               Oper("Minus", 1), Oper("Plus", 1), Oper("Abs", 1),
               Oper("Plus", 2), Oper("Minus", 2) >> \o SixComparators
      [] kind = "Physical" ->
            << Named("MINIMUM", 2), Named("MAXIMUM", 2),
               Oper("Minus", 1), Oper("Plus", 1), Oper("Abs", 1),
               Oper("Plus", 2), Oper("Minus", 2) >> \o SixComparators
      [] kind = "Enum" ->
            << Named("TO_STRING", 1), Named("MINIMUM", 2), Named("MAXIMUM", 2) >>
            \o SixComparators
      [] kind = "Record" -> << Oper("EQ", 2), Oper("NE", 2) >>
      [] kind = "Access" -> << Named("DEALLOCATE", 1), Oper("EQ", 2), Oper("NE", 2) >>
      [] kind \in {"Universal", "Alias", "Subtype", "Interface", "Protected",
                   "Incomplete", "File"} -> <<>>

\* the formal is a constant of mode in, of that name and type, without default
IsConstantIn(f, name, typ) ==
    /\ f.kind = "Object"
    /\ f.name = name
    /\ f.class = "Constant"
    /\ f.mode = "In"
    /\ f.subtype = typ
    /\ ~f.has_default

\* a function of two constant in parameters L and R
HasSignature(e, left, right, ret) ==
    /\ e.kind = "Function"
    /\ Len(e.formals) = 2
    /\ IsConstantIn(e.formals[1], "L", left)
    /\ IsConstantIn(e.formals[2], "R", right)
    /\ e.return_type = ret

IsComparator(e) ==
    e.designator.tag = "OperatorSymbol" /\ e.designator.name \in ComparatorNames

\* C8: for a type that is no array, type_implicits returns the designators of
\* its kind in order, each entity with the type as parent, and every comparator
\* takes two constant in parameters L and R of the type and returns BOOLEAN
C8_ImplicitsOfKind ==
    (std_op = "type_implicits" /\ TypeOf(std_typ).kind # "Array") =>
        /\ Shapes(res) = ExpectedShapes(TypeOf(std_typ).kind)
        /\ \A i \in DOMAIN res :
              /\ res[i].parent = std_typ
              /\ IsComparator(res[i]) => HasSignature(res[i], std_typ, std_typ, "BOOLEAN")

\* the implicits of the physical type TIME were asked for after another call
C8_Witness ==
    /\ std_op = "type_implicits"
    /\ TypeOf(std_typ).kind = "Physical"
    /\ Len(res) = 13
    /\ std_calls = 2
    /\ res[1].id > 2

\* C9: for an array type A of element type E, type_implicits returns TO_STRING,
\* = and /=, then, exactly when A has one index, the concatenations (A, E) -> A,
\* (E, A) -> A, (A, A) -> A and (E, E) -> A, all with A as parent
C9_ArrayImplicits ==
    (std_op = "type_implicits" /\ TypeOf(std_typ).kind = "Array") =>
        LET A == std_typ
            E == TypeOf(std_typ).elem_type
        IN  /\ Len(res) = IF TypeOf(A).indexes = 1 THEN 7 ELSE 3
            /\ Shapes(SubSeq(res, 1, 3))
                  = << Named("TO_STRING", 1), Oper("EQ", 2), Oper("NE", 2) >>
            /\ \A i \in DOMAIN res : res[i].parent = A
            /\ TypeOf(A).indexes = 1 =>
                  /\ \A i \in 4..7 : Shape(res[i]) = Oper("Concat", 2)
                  /\ HasSignature(res[4], A, E, A)
                  /\ HasSignature(res[5], E, A, A)
                  /\ HasSignature(res[6], A, A, A)
                  /\ HasSignature(res[7], E, E, A)

\* the implicits of BIT_VECTOR, whose element type is BIT
C9_Witness ==
    /\ std_op = "type_implicits"
    /\ std_typ = "BIT_VECTOR"
    /\ Len(res) = 7
    /\ res[7].formals[1].subtype = "BIT"
    /\ res[7].parent = "BIT_VECTOR"

\* the formal of that name of the entity
Formal(e, name) == e.formals[CHOOSE i \in DOMAIN e.formals : e.formals[i].name = name]

\* C10: for a file type FT of type mark TM the subprograms are FILE_OPEN,
\* FILE_OPEN, FILE_CLOSE, READ, WRITE, FLUSH and ENDFILE, in this order and with
\* FT as parent; the second FILE_OPEN begins with Status: out FILE_OPEN_STATUS;
\* VALUE is out TM in READ and in TM in WRITE; ENDFILE is the only function and
\* returns BOOLEAN; Open_Kind is the only parameter with a default
C10_FileSubprograms ==
    std_op = "create_implicit_file_type_subprograms" =>
        /\ [i \in DOMAIN res |-> res[i].designator]
              = << Identifier("FILE_OPEN"), Identifier("FILE_OPEN"),
                   Identifier("FILE_CLOSE"), Identifier("READ"), Identifier("WRITE"),
                   Identifier("FLUSH"), Identifier("ENDFILE") >>
        /\ \A i \in DOMAIN res : res[i].parent = std_typ
        /\ LET status == res[2].formals[1]
           IN  /\ status.name = "Status"
               /\ status.kind = "Object"
               /\ status.mode = "Out"
               /\ status.subtype = "FILE_OPEN_STATUS"
        /\ res[1].formals[1].name # "Status"
        /\ Formal(res[4], "VALUE").mode = "Out"
        /\ Formal(res[4], "VALUE").subtype = std_mark
        /\ Formal(res[5], "VALUE").mode = "In"
        /\ Formal(res[5], "VALUE").subtype = std_mark
        /\ \A i \in DOMAIN res : res[i].kind = "Function" <=> i = 7
        /\ res[7].return_type = "BOOLEAN"
        /\ \A i \in DOMAIN res : \A j \in DOMAIN res[i].formals :
              res[i].formals[j].has_default <=> res[i].formals[j].name = "Open_Kind"

\* the subprograms of a file of INTEGER
C10_Witness ==
    /\ std_op = "create_implicit_file_type_subprograms"
    /\ std_typ = "INT_FILE"
    /\ std_mark = "INTEGER"
    /\ Len(res) = 7
    /\ Len(res[2].formals) = 4
    /\ res[2].formals[4].has_default

(***************************************************************************)
(* Properties of end_of_package_implicits (SpecStandard).                  *)
(***************************************************************************)
EndOfPackageDone == std_op = "end_of_package_implicits"

\* the types of the formals of an entity, in order, and its return type
Sig(e) == <<[i \in DOMAIN e.formals |-> e.formals[i].subtype], e.return_type>>

VectorTypes == {"BOOLEAN_VECTOR", "BIT_VECTOR"}

ScalarOf(A) == IF A = "BOOLEAN_VECTOR" THEN "BOOLEAN" ELSE "BIT"

LogicalOperators == {"And", "Or", "Nand", "Nor", "Xor", "Xnor"}

\* the entities of the list that are operator o with parent A, in order
OperatorsOf(ents, A, o) ==
    SelectSeq(ents, LAMBDA e : e.parent = A /\ e.designator = OperatorSymbol(o))

\* C11: for each vector type A of scalar type S and each of and, or, nand, nor,
\* xor, xnor, the four entities end_of_package_implicits emits are, in order,
\* (A, A) -> A, (A) -> S, (A, S) -> A and (S, A) -> A
C11_VectorSignatures ==
    EndOfPackageDone =>
        \A A \in VectorTypes : \A o \in LogicalOperators :
            LET S == ScalarOf(A)
                es == OperatorsOf(res, A, o)
            IN  /\ Len(es) = 4
                /\ Sig(es[1]) = << <<A, A>>, A >>
                /\ Sig(es[2]) = << <<A>>, S >>
                /\ Sig(es[3]) = << <<A, S>>, A >>
                /\ Sig(es[4]) = << <<S, A>>, A >>

\* end_of_package_implicits has run and the fourth "and" of BOOLEAN_VECTOR takes
\* two vectors and returns the scalar
C11_Witness ==
    /\ EndOfPackageDone
    /\ Len(OperatorsOf(res, "BOOLEAN_VECTOR", "And")) = 4
    /\ Sig(OperatorsOf(res, "BOOLEAN_VECTOR", "And")[4])
          = << <<"BOOLEAN_VECTOR", "BOOLEAN_VECTOR">>, "BOOLEAN" >>
    /\ Sig(OperatorsOf(res, "BOOLEAN_VECTOR", "And")[3])
          = << <<"BOOLEAN_VECTOR", "BOOLEAN">>, "BOOLEAN_VECTOR" >>

\* C12: when end_of_package_implicits returns, every entity of the list has the
\* type it was made for as parent and is in the slot of that type if the kind of
\* the type has a slot
C12_ParentHoldsImplicit ==
    EndOfPackageDone =>
        \A made \in {end_of_package_implicits(immediates)} : \A i \in DOMAIN res :
            /\ res[i].parent = made[i].slot
            /\ has_implicits(res[i].parent) =>
                  res[i].id \in Range(implicits[res[i].parent])

\* a run made after another operation: its last entity, TO_STRING with the
\* parent TIME, is the last of the slot of TIME
C12_Witness ==
    /\ EndOfPackageDone
    /\ std_calls = 2
    /\ res[1].id > 2
    /\ res[Len(res)].parent = "TIME"
    /\ has_implicits("TIME")
    /\ implicits["TIME"][Len(implicits["TIME"])] = res[Len(res)].id

\* the designator and the signature of each entity of the list: the kind of
\* subprogram, the name, class, mode and type of each formal, the return type
Signatures(ents) ==
    [i \in DOMAIN ents |->
        [designator |-> ents[i].designator,
         kind |-> ents[i].kind,
         formals |-> [j \in DOMAIN ents[i].formals |->
                        [name |-> ents[i].formals[j].name,
                         class |-> ents[i].formals[j].class,
                         mode |-> ents[i].formals[j].mode,
                         subtype |-> ents[i].formals[j].subtype]],
         return_type |-> ents[i].return_type]]

C14_SlotsAppendOnly ==
    [][\A t \in SlotTypes : IsPrefix(implicits[t], implicits'[t])]_vars

\* the slot of REAL was pushed into by two runs: the entities of the first run
\* are still there, in front of those of the second
C14_Witness ==
    /\ Len(implicits["REAL"]) = 32
    /\ implicits["REAL"][16] < implicits["REAL"][17]
    /\ \A i \in 1..16 : implicits["REAL"][i] <= arena \div 2

(***************************************************************************)
(* Further properties of RegionSearcher (SpecRegion).                      *)
(***************************************************************************)
StrictlyNested(a, b) == Nested(a, b) /\ a # b

\* C15: a selected region is replaced by a region visited later only when that
\* region contains the cursor and is strictly nested within the selected one; a
\* region of the same range as the selected one does not replace it
C15_ReplacedOnlyByStrictlyNested ==
    [][(region.some /\ region' # region) =>
          /\ contains(last'.range, rs_cursor)
          /\ StrictlyNested(last'.range, region.range)]_vars

\* the region selected is the one visited last, and a region of the same range
\* and of the other category was visited before it
C15_Witness ==
    /\ region.some
    /\ last.source = rs_source
    /\ region = Some(last.kind, last.range)
    /\ \E v \in visited :
          /\ v.source = rs_source
          /\ v.range = region.range
          /\ v.kind # region.kind

\* the step is a search_source callback: the traversal enters the next source
EntersSource == to_walk' # to_walk

\* C16: search_source returns NotFinished exactly when the source visited is the
\* target source and Finished(NotFound) otherwise, and leaves the selected region
\* alone; as the traversal skips the regions of a source on Finished(NotFound),
\* the selected region changes only while the target source is walked
C16_OnlyTargetSourceSelects ==
    [][/\ EntersSource =>
            /\ state' = "NotFinished" <=> walking' = rs_source
            /\ state' = "Finished(NotFound)" <=> walking' # rs_source
            /\ region' = region
       /\ region' # region => walking = rs_source /\ last'.source = rs_source]_vars

\* the traversal has entered the other source after a region of the target
\* source was selected: the regions of the other source are skipped and the
\* selection stands
C16_Witness ==
    /\ walking = "other.vhd"
    /\ rs_source = "design.vhd"
    /\ state = "Finished(NotFound)"
    /\ region.some
    /\ last.source = "design.vhd"
    /\ region = Some(last.kind, last.range)

\* regions of the target source were visited and the traversal has gone on
TargetWalked == walking # rs_source /\ \E v \in visited : v.source = rs_source

\* C17 as stated: once the regions of the target source have been visited the
\* traversal ends, so no callback is made for a source that comes after it
C17_TraversalEndsAfterTarget ==
    [][(\E v \in visited : v.source = rs_source) => ~EntersSource]_vars

\* C17: RegionSearcher returns no terminal state for the target source or for
\* its regions, so it does not end the traversal there; it returns
\* Finished(NotFound) only from search_source, for a source other than the
\* target, also when that source comes after the target
C17_FinishedOnlyForOtherSources ==
    /\ walking = rs_source => state = "NotFinished"
    /\ state = "Finished(NotFound)" <=> walking \notin {"-", rs_source}
    /\ state = "Finished(NotFound)" => last.source # walking

\* search_source was called for the other source after three regions of the
\* target source had been visited
C17_Witness ==
    /\ TargetWalked
    /\ walking = "other.vhd"
    /\ to_walk = <<>>
    /\ Cardinality(visited) = 3
    /\ state = "Finished(NotFound)"

\* an entity without its id: parent, designator and signature
Described(ents) ==
    [i \in DOMAIN ents |->
        [parent |-> ents[i].parent, signature |-> Signatures(ents)[i]]]

\* the type_implicits of every single type entity of the region, in the order
\* the region yields its entities
ImplicitsOfTypes(imm) ==
    ConcatAll([i \in DOMAIN imm |->
        IF imm[i].tag = "Single" /\ imm[i].name \in StandardTypes
        THEN type_implicits(imm[i].name)
        ELSE <<>>])

\* a function TO_STRING with the parent given, constant in formals of the names
\* and types given, returning STRING
IsToString(e, parent, names, types) ==
    /\ e.parent = parent
    /\ e.designator = Identifier("TO_STRING")
    /\ e.kind = "Function"
    /\ Len(e.formals) = Len(names)
    /\ \A j \in DOMAIN names : IsConstantIn(e.formals[j], names[j], types[j])
    /\ e.return_type = "STRING"

ScalarOperators == <<"And", "Or", "Nand", "Nor", "Xor", "Xnor", "Not">>

\* the seven entities of a scalar type T: six (T, T) -> T and not: (T) -> T
AreScalarOperators(es, T) ==
    /\ Len(es) = 7
    /\ \A k \in 1..7 :
          /\ es[k].parent = T
          /\ es[k].designator = OperatorSymbol(ScalarOperators[k])
          /\ es[k].kind = "Function"
          /\ Sig(es[k]) = IF k = 7 THEN << <<T>>, T >> ELSE << <<T, T>>, T >>

\* the 24 entities of a vector type A: four for each of and, or, nand, nor,
\* xor, xnor in turn
AreVectorOperators(es, A) ==
    /\ Len(es) = 24
    /\ \A k \in 1..24 :
          /\ es[k].parent = A
          /\ es[k].designator = OperatorSymbol(ScalarOperators[((k - 1) \div 4) + 1])
          /\ es[k].kind = "Function"

\* C18: the list end_of_package_implicits returns is, in order, the
\* type_implicits of every single type entity of the region, TO_STRING(VALUE:
\* TIME) of TIME, the seven operators of BOOLEAN and of BIT, the vector operators
\* of BOOLEAN_VECTOR and of BIT_VECTOR, and last TO_STRING(VALUE: REAL; DIGITS:
\* NATURAL) and TO_STRING(VALUE: REAL; FORMAT: STRING) of REAL and
\* TO_STRING(VALUE: TIME; UNIT: TIME) of TIME, each returning STRING
C18_ListInOrder ==
    EndOfPackageDone =>
        \A head \in {ImplicitsOfTypes(immediates)} :
            LET n == Len(head)
                part(from, len) == SubSeq(res, n + from, n + from + len - 1)
            IN  /\ Len(res) = n + 66
                /\ Described(SubSeq(res, 1, n)) = Described(head)
                /\ IsToString(res[n + 1], "TIME", <<"VALUE">>, <<"TIME">>)
                /\ AreScalarOperators(part(2, 7), "BOOLEAN")
                /\ AreScalarOperators(part(9, 7), "BIT")
                /\ AreVectorOperators(part(16, 24), "BOOLEAN_VECTOR")
                /\ AreVectorOperators(part(40, 24), "BIT_VECTOR")
                /\ IsToString(res[n + 64], "REAL", <<"VALUE", "DIGITS">>,
                              <<"REAL", "NATURAL">>)
                /\ IsToString(res[n + 65], "REAL", <<"VALUE", "FORMAT">>,
                              <<"REAL", "STRING">>)
                /\ IsToString(res[n + 66], "TIME", <<"VALUE", "UNIT">>,
                              <<"TIME", "TIME">>)

\* a run over a region that yields FILE_OPEN_STATUS first and BOOLEAN last: the
\* list starts with the implicits of FILE_OPEN_STATUS and has 173 entities
C18_Witness ==
    /\ EndOfPackageDone
    /\ immediates[1].name = "FILE_OPEN_STATUS"
    /\ res[1].parent = "FILE_OPEN_STATUS"
    /\ Len(res) = 173
    /\ res[107].parent = "BOOLEAN"
    /\ res[108].parent = "TIME"

\* the ids of the entities of a list
Ids(ents) == {ents[i].id : i \in DOMAIN ents}

\* the ids held by the slots
InSlots == UNION {Range(implicits[t]) : t \in SlotTypes}

\* C19: type_implicits and create_implicit_file_type_subprograms only allocate
\* entities and return them: a step of either leaves every slot and the region
\* as they were and the entities returned are in no slot; a step that changes a
\* slot is a step of end_of_package_implicits
C19_OnlyEndOfPackagePushes ==
    [][/\ std_op' \in {"type_implicits", "create_implicit_file_type_subprograms"} =>
            /\ implicits' = implicits
            /\ immediates' = immediates
            /\ Ids(res') \cap InSlots' = {}
            /\ \A i \in DOMAIN res' : res'[i].id > arena /\ res'[i].id <= arena'
       /\ implicits' # implicits => std_op' = "end_of_package_implicits"]_vars

\* type_implicits of INTEGER after a run of end_of_package_implicits: the slot
\* of INTEGER holds the 14 entities of that run and none of the 14 returned now
C19_Witness ==
    /\ std_op = "type_implicits"
    /\ std_typ = "INTEGER"
    /\ Len(res) = 14
    /\ Len(implicits["INTEGER"]) = 14
    /\ Ids(res) \cap Range(implicits["INTEGER"]) = {}

\* the entities of the list with parent A whose designator is a logical operator
LogicalOperatorsOf(ents, A) ==
    SelectSeq(ents, LAMBDA e :
        /\ e.parent = A
        /\ e.designator.tag = "OperatorSymbol"
        /\ e.designator.name \in LogicalOperators \cup {"Not"})

\* C20: end_of_package_implicits makes no entity of operator not for
\* BOOLEAN_VECTOR or BIT_VECTOR: each vector type gets exactly 24 entities of
\* logical operators, and every unary one among them returns the scalar type
C20_NoVectorNot ==
    EndOfPackageDone =>
        \A A \in VectorTypes :
            \A es \in {LogicalOperatorsOf(res, A)} :
                /\ OperatorsOf(res, A, "Not") = <<>>
                /\ Len(es) = 24
                /\ \A k \in DOMAIN es :
                      Len(es[k].formals) = 1 => es[k].return_type = ScalarOf(A)

\* a run has made the unary xnor of BIT_VECTOR, which returns BIT, and not of
\* BIT, the scalar type, but no not of BIT_VECTOR
C20_Witness ==
    /\ EndOfPackageDone
    /\ Len(LogicalOperatorsOf(res, "BIT_VECTOR")) = 24
    /\ Sig(OperatorsOf(res, "BIT_VECTOR", "Xnor")[2]) = << <<"BIT_VECTOR">>, "BIT" >>
    /\ Len(OperatorsOf(res, "BIT", "Not")) = 1
    /\ Len(OperatorsOf(res, "BIT_VECTOR", "Not")) = 0

=============================================================================
